---- MODULE Spec2Model ----
(***************************************************************************)
(* Model of the SCR batch ETL of Projeto_Final:                            *)
(*   scr_pipeline.py     processar_scrdata, pipeline_scrdata (local mode)  *)
(*   scr_s3_pipeline.py  process_year_to_s3, main (object-storage mode)    *)
(*                                                                         *)
(* Text is a sequence of atoms; every atom stands for a fixed run of       *)
(* characters and no atom is a prefix of another one, so that a prefix     *)
(* test on atoms is the prefix test of str.startswith on characters.       *)
(* A path is a sequence of components, a component a sequence of atoms.    *)
(***************************************************************************)
EXTENDS Integers, Sequences, FiniteSets, TLC

\* ------------------------------------------------------------------ bounds

\* number of consecutive years an invocation may name, starting at FirstYear
NumYears == 2

\* most rows of a table given to processar_scrdata
MaxRows == 2

\* most characters of a sample given to infer_sep
MaxLen == 4

MinAno == 1900

MaxAno == 2100

\* the first year of the modelled range: the last year below the valid range
FirstYear == MinAno - 1

Years == FirstYear .. (FirstYear + NumYears - 1)

\* ------------------------------------------------------------------- paths

Last(s) == s[Len(s)]

Front(s) == SubSeq(s, 1, Len(s) - 1)

Name(s) == << <<s>> >>

DotDot == <<"..">>

RECURSIVE resolveFrom(_, _)
resolveFrom(acc, p) ==
    IF p = <<>> THEN acc
    ELSE IF Head(p) = DotDot
         THEN resolveFrom(IF acc = <<>> THEN acc ELSE Front(acc), Tail(p))
         ELSE resolveFrom(Append(acc, Head(p)), Tail(p))

\* the process's working directory, against which relative paths resolve
cwd == Name("srv")

\* Path.resolve(): absolute, ".." folded
resolve(p) == resolveFrom(cwd, p)

\* str(path): the characters of the path
RECURSIVE str(_)
str(p) == IF p = <<>> THEN <<>> ELSE <<"/">> \o Head(p) \o str(Tail(p))

startswith(s, prefix) ==
    Len(prefix) <= Len(s) /\ SubSeq(s, 1, Len(prefix)) = prefix

\* p lies in directory d (at any depth)
IsUnder(p, d) == Len(p) > Len(d) /\ SubSeq(p, 1, Len(d)) = d

\* the directories from the root down to p: mkdir(parents=True, exist_ok=True)
ensure_dir(p) == { SubSeq(p, 1, n) : n \in 1 .. Len(p) }

IsCsv(p) == Last(Last(p)) = ".csv"

\* Path.rglob("*.csv") below d, among the files fs
rglob_csv(fs, d) == { p \in DOMAIN fs : IsUnder(p, d) /\ IsCsv(p) }

\* ---------------------------------------------------------------- archives

\* The archives the remote endpoint may serve, by the names of their entries.
ArchiveIds == {"jan", "janfev", "nocsv", "dotdot", "sibling"}

namelist(a) ==
    CASE a = "jan"     -> { << <<"jan", ".csv">> >> }
      [] a = "janfev"  -> { << <<"jan", ".csv">> >>, << <<"fev", ".csv">> >> }
      [] a = "nocsv"   -> { << <<"leia", ".txt">> >> }
      [] a = "dotdot"  -> { << <<"jan", ".csv">> >>,
                            << DotDot, <<"evil", ".txt">> >> }
      [] a = "sibling" -> { << DotDot, <<"extracted", "_evil">>, <<"x", ".csv">> >> }

\* a download that broke off after the file was opened for writing
Truncated == "truncated"

\* ZipFile._extract_member: "", "." and ".." components are dropped from the
\* entry's name before it is joined to the target directory
RECURSIVE sanitize(_)
sanitize(m) ==
    IF m = <<>> THEN <<>>
    ELSE IF Head(m) = DotDot THEN sanitize(Tail(m))
         ELSE <<Head(m)>> \o sanitize(Tail(m))

\* where ZipFile.extractall(dest) writes entry m
extract_target(dest, m) == dest \o sanitize(m)

\* files and directories after the entries ms of archive a were written into
\* dest by ZipFile.extractall (all of namelist(a) unless it broke off)
extract_files(fs, a, ms, dest) ==
    LET new == { extract_target(dest, m) : m \in ms }
    IN  [ p \in (DOMAIN fs) \cup new |-> IF p \in new THEN a ELSE fs[p] ]

extract_dirs(ds, ms, dest) ==
    ds \cup UNION { ensure_dir(Front(extract_target(dest, m))) : m \in ms }

\* the entries safe_extract_zip refuses: the resolved path, as text, does not
\* start with the text of the resolved destination
zip_slip(dest, m) == ~ startswith(str(resolve(dest \o m)), str(resolve(dest)))

Write(fs, p, c) == [ q \in (DOMAIN fs) \cup {p} |-> IF q = p THEN c ELSE fs[q] ]

Remove(fs, ps) == [ q \in (DOMAIN fs) \ ps |-> fs[q] ]

NoFiles == [ q \in {} |-> "" ]

\* ------------------------------------------------------------------- state

VARIABLES
    script,     \* the program this session runs: "scr_s3_pipeline" | "scr_pipeline"
    dirs,       \* local disk: the directories that exist
    files,      \* local disk: file path -> content
    bucket,     \* object storage: the keys of the objects that exist
    pc,         \* position of the running invocation ("idle": none)
    pending,    \* main: the years the for loop has not started yet
    ano,        \* the year of the latest run of a year (0: none)
    flag,       \* overwrite (main) / forcar_download (pipeline_scrdata)
    csv_paths,  \* local variable csv_paths
    df,         \* the table in memory: the files it was read from
    trace,      \* the stages the current year's run has executed, in order
    io,         \* the kinds of I/O the current invocation has performed
    log,        \* main: per year started so far, how its run ended
    exc,        \* the exception that ended the latest run ("": none)
    ret,        \* what the latest pipeline_scrdata call returned (<<>>: nothing)
    arg,        \* the arguments of a call of a function on its own (<<>>: none)
    out         \* what that call returned (<<>>: not yet called)

vars == <<script, dirs, files, bucket, pc, pending, ano, flag, csv_paths, df,
          trace, io, log, exc, ret, arg, out>>

\* ------------------------------------------- scr_s3_pipeline.py: the layout

workdir == Name("data_work")

s3_ano_dir(y) == workdir \o << <<"ano=", ToString(y)>> >>

s3_raw_dir(y) == s3_ano_dir(y) \o Name("raw")

s3_extracted_dir(y) == s3_ano_dir(y) \o Name("extracted")

s3_processed_dir(y) == s3_ano_dir(y) \o Name("processed")

zip_local(y) == s3_raw_dir(y) \o << <<"scrdata_", ToString(y), ".zip">> >>

parquet_local(y) == s3_processed_dir(y) \o << <<"scrdata_", ToString(y), ".parquet">> >>

\* {prefix}/raw/ano={ano}/scrdata_{ano}.zip
zip_key(y) == <<"scr", "raw", y>>

\* {prefix}/processed/ano={ano}/scrdata_{ano}.parquet
parquet_key(y) == <<"scr", "processed", y>>

\* faulty variant: the probe never finds the object
head_object_never(b, k) == FALSE

\* s3.head_object succeeds iff the object exists; otherwise ClientError
head_object(b, k) == k \in b

\* the table read from the files ps: each row carries its file of origin
read_and_concat_csvs(fs, ps) == { <<p, fs[p]>> : p \in ps }

Stages == <<"Downloading", "UploadingRaw", "Extracting", "Loading",
            "Transforming", "PersistingLocal", "UploadingProcessed", "Done">>

NoTable == {}

\* faulty variant: main catches the exception and goes on with the next year
Raise_continue(e) ==
    /\ pc' = "loop"
    /\ log' = Append(log, [ano |-> ano, result |-> e])
    /\ exc' = e
    /\ csv_paths' = {}
    /\ df' = NoTable
    /\ trace' = <<>>
    /\ io' = {}
    /\ UNCHANGED <<script, pending, ano, flag, ret, arg, out>>

\* the year's run ends with exception e, which main lets propagate: the
\* process ends, its locals are gone
Raise(e) ==
    /\ pc' = "idle"
    /\ log' = Append(log, [ano |-> ano, result |-> e])
    /\ exc' = e
    /\ csv_paths' = {}
    /\ df' = NoTable
    /\ flag' = FALSE
    /\ trace' = <<>>
    /\ io' = {}
    /\ UNCHANGED <<script, pending, ano, ret, arg, out>>

\* the stage succeeded: the run moves on to stage next
Goto(stage, effects, next) ==
    /\ pc' = next
    /\ trace' = Append(trace, stage)
    /\ io' = io \cup effects
    /\ UNCHANGED <<script, pending, ano, flag, log, exc, ret, arg, out>>

\* --------------------------------------------- scr_s3_pipeline.py: actions

\* main, lines 202-217: the work directory, the check of the range, the loop
main(start_year, end_year, overwrite) ==
    /\ script = "scr_s3_pipeline"
    /\ pc = "idle"
    /\ dirs' = dirs \cup ensure_dir(workdir)
    /\ log' = <<>>
    /\ IF start_year > end_year
       THEN /\ exc' = "ValueError"
            /\ pc' = "idle"
            /\ pending' = <<>>
            /\ flag' = FALSE
            /\ ano' = 0
       ELSE /\ pc' = "loop"
            /\ pending' = [ i \in 1 .. (end_year - start_year + 1) |-> start_year + i - 1 ]
            /\ flag' = overwrite
            /\ UNCHANGED <<ano, exc>>
    /\ UNCHANGED <<script, files, bucket, csv_paths, df, trace, io, ret, arg, out>>

\* process_year_to_s3, lines 121-148: the working directories, then the probe
\* of the processed object unless overwrite was asked for
StartYear ==
    /\ script = "scr_s3_pipeline"
    /\ pc = "loop"
    /\ pending # <<>>
    /\ LET y == Head(pending) IN
       /\ ano' = y
       /\ pending' = Tail(pending)
       /\ dirs' = dirs \cup ensure_dir(s3_raw_dir(y)) \cup ensure_dir(s3_extracted_dir(y))
                       \cup ensure_dir(s3_processed_dir(y))
       /\ io' = {"mkdir"} \cup (IF flag THEN {} ELSE {"head_object"})
       /\ trace' = <<>>
       /\ IF ~flag /\ head_object(bucket, parquet_key(y))
          THEN /\ pc' = "loop"
               /\ log' = Append(log, [ano |-> y, result |-> "Skipped"])
          ELSE /\ pc' = "Downloading"
               /\ log' = log
    /\ exc' = ""
    /\ UNCHANGED <<script, files, bucket, flag, csv_paths, df, ret, arg, out>>

\* download_zip_streaming, lines 49-58, called at line 154: no test of whether
\* out_path exists; the body is written chunk by chunk as it arrives
Downloading ==
    /\ script = "scr_s3_pipeline"
    /\ pc = "Downloading"
    /\ \/ \E a \in ArchiveIds :
             /\ files' = Write(files, zip_local(ano), a)
             /\ Goto("Downloading", {"http_get"}, "UploadingRaw")
             /\ UNCHANGED <<csv_paths, df>>
       \/ /\ files' = files                     \* raise_for_status, or no connection
          /\ Raise("HTTPError")
       \/ /\ files' = Write(files, zip_local(ano), Truncated)
          /\ Raise("ConnectionError")           \* the stream broke off
    /\ UNCHANGED <<dirs, bucket>>

\* faulty variant: the archive is uploaded and the extraction left out
UploadingRaw_then_Loading ==
    /\ script = "scr_s3_pipeline"
    /\ pc = "UploadingRaw"
    /\ \/ /\ bucket' = bucket \cup {zip_key(ano)}
          /\ Goto("UploadingRaw", {"upload_raw"}, "Loading")
          /\ UNCHANGED <<csv_paths, df>>
       \/ /\ bucket' = bucket
          /\ Raise("S3UploadFailedError")
    /\ UNCHANGED <<dirs, files>>

\* s3_upload_file of the raw archive, line 158
UploadingRaw ==
    /\ script = "scr_s3_pipeline"
    /\ pc = "UploadingRaw"
    /\ \/ /\ bucket' = bucket \cup {zip_key(ano)}
          /\ Goto("UploadingRaw", {"upload_raw"}, "Extracting")
          /\ UNCHANGED <<csv_paths, df>>
       \/ /\ bucket' = bucket
          /\ Raise("S3UploadFailedError")
    /\ UNCHANGED <<dirs, files>>

\* safe_extract_zip, lines 61-74: every entry is tested before extractall
safe_extract_zip_refuses(a, dest) == \E m \in namelist(a) : zip_slip(dest, m)

\* shutil.rmtree(d)
rmtree_files(fs, d) == Remove(fs, { p \in DOMAIN fs : IsUnder(p, d) })

rmtree_dirs(ds, d) == { p \in ds : p # d /\ ~ IsUnder(p, d) }

\* lines 160-167: the extraction directory is removed and made anew, then
\* safe_extract_zip
Extracting ==
    /\ script = "scr_s3_pipeline"
    /\ pc = "Extracting"
    /\ bucket' = bucket
    /\ LET dest    == s3_extracted_dir(ano)
           a       == files[zip_local(ano)]
           cleared == rmtree_files(files, dest)
           cleand  == rmtree_dirs(dirs, dest) \cup ensure_dir(dest)
       IN  IF a = Truncated
           THEN /\ files' = cleared
                /\ dirs' = cleand
                /\ Raise("BadZipFile")
           ELSE IF safe_extract_zip_refuses(a, dest)
           THEN /\ files' = cleared
                /\ dirs' = cleand
                /\ Raise("RuntimeError")
           ELSE \/ /\ files' = extract_files(cleared, a, namelist(a), dest)
                   /\ dirs' = extract_dirs(cleand, namelist(a), dest)
                   /\ Goto("Extracting", {"rmtree", "extractall"}, "Loading")
                   /\ UNCHANGED <<csv_paths, df>>
                \/ \E ms \in (SUBSET namelist(a)) \ {namelist(a)} :
                      /\ files' = extract_files(cleared, a, ms, dest)
                      /\ dirs' = extract_dirs(cleand, ms, dest)
                      /\ Raise("OSError")       \* extractall broke off

\* faulty variant: with no .csv file the load goes on with an empty table
Loading_empty_table ==
    /\ script = "scr_s3_pipeline"
    /\ pc = "Loading"
    /\ LET found == rglob_csv(files, s3_extracted_dir(ano))
       IN  \/ /\ csv_paths' = found
              /\ df' = read_and_concat_csvs(files, found)
              /\ Goto("Loading", {"read_csv"}, "Transforming")
           \/ Raise("ParserError")
    /\ UNCHANGED <<dirs, files, bucket>>

\* lines 169-178: the .csv files are located, read and concatenated
Loading ==
    /\ script = "scr_s3_pipeline"
    /\ pc = "Loading"
    /\ LET found == rglob_csv(files, s3_extracted_dir(ano))
       IN  IF found = {}
           THEN Raise("FileNotFoundError")
           ELSE \/ /\ csv_paths' = found
                   /\ df' = read_and_concat_csvs(files, found)
                   /\ Goto("Loading", {"read_csv"}, "Transforming")
                \/ Raise("ParserError")         \* pd.read_csv fails on a file
    /\ UNCHANGED <<dirs, files, bucket>>

\* lines 180-186: processar_scrdata on the table in memory
Transforming ==
    /\ script = "scr_s3_pipeline"
    /\ pc = "Transforming"
    /\ \/ /\ Goto("Transforming", {}, "PersistingLocal")
          /\ UNCHANGED <<csv_paths, df>>
       \/ Raise("MemoryError")
    /\ UNCHANGED <<dirs, files, bucket>>

\* lines 188-190: DataFrame.to_parquet
PersistingLocal ==
    /\ script = "scr_s3_pipeline"
    /\ pc = "PersistingLocal"
    /\ \/ /\ files' = Write(files, parquet_local(ano), "parquet")
          /\ Goto("PersistingLocal", {"to_parquet"}, "UploadingProcessed")
          /\ UNCHANGED <<csv_paths, df>>
       \/ /\ files' = files
          /\ Raise("OSError")
    /\ UNCHANGED <<dirs, bucket>>

\* faulty variant: an upload that fails has put the object all the same
UploadingProcessed_partial ==
    /\ script = "scr_s3_pipeline"
    /\ pc = "UploadingProcessed"
    /\ bucket' = bucket \cup {parquet_key(ano)}
    /\ \/ /\ trace' = trace \o <<"UploadingProcessed", "Done">>
          /\ io' = io \cup {"upload_processed"}
          /\ pc' = "loop"
          /\ log' = Append(log, [ano |-> ano, result |-> "Done"])
          /\ csv_paths' = {}
          /\ df' = NoTable
          /\ UNCHANGED <<script, pending, ano, flag, exc, ret, arg, out>>
       \/ Raise("S3UploadFailedError")
    /\ UNCHANGED <<dirs, files>>

\* lines 192-196: s3_upload_file of the parquet file, then the year is done
UploadingProcessed ==
    /\ script = "scr_s3_pipeline"
    /\ pc = "UploadingProcessed"
    /\ \/ /\ bucket' = bucket \cup {parquet_key(ano)}
          /\ trace' = trace \o <<"UploadingProcessed", "Done">>
          /\ io' = io \cup {"upload_processed"}
          /\ pc' = "loop"
          /\ log' = Append(log, [ano |-> ano, result |-> "Done"])
          /\ csv_paths' = {}
          /\ df' = NoTable
          /\ UNCHANGED <<script, pending, ano, flag, exc, ret, arg, out>>
       \/ /\ bucket' = bucket
          /\ Raise("S3UploadFailedError")
    /\ UNCHANGED <<dirs, files>>

\* line 218: the range is exhausted, main returns
MainReturn ==
    /\ script = "scr_s3_pipeline"
    /\ pc = "loop"
    /\ pending = <<>>
    /\ pc' = "idle"
    /\ ano' = 0
    /\ flag' = FALSE
    /\ trace' = <<>>
    /\ io' = {}
    /\ log' = <<>>
    /\ UNCHANGED <<script, dirs, files, bucket, pending, csv_paths, df, exc, ret, arg, out>>

\* ------------------------------------------------ scr_pipeline.py: layout

base_dir == << <<"data">>, <<"scrdata">> >>

ano_dir(y) == base_dir \o << <<ToString(y)>> >>

raw_dir(y) == ano_dir(y) \o Name("raw")

extracted_dir(y) == ano_dir(y) \o Name("extracted")

processed_dir(y) == ano_dir(y) \o Name("processed")

zip_path(y) == raw_dir(y) \o << <<"scrdata_", ToString(y), ".zip">> >>

parquet_path(y) == processed_dir(y) \o << <<"scrdata_", ToString(y), ".parquet">> >>

\* line 176
ano_valido(y) == MinAno <= y /\ y <= MaxAno

\* faulty variant: the archive on disk is never taken for the download
zip_em_cache_never(fs, y, forcar_download) == FALSE

\* line 195: the download is left out
zip_em_cache(fs, y, forcar_download) == zip_path(y) \in DOMAIN fs /\ ~ forcar_download

\* lines 211-212: the extraction is left out
ja_extraido(fs, y, forcar_download) ==
    rglob_csv(fs, extracted_dir(y)) # {} /\ ~ forcar_download

\* faulty variant: the files of the earlier extraction are left in place
limpa_files_none(fs, d) == fs

\* lines 217-226: every file below d is unlinked, then every directory below
\* d, the deepest first, is removed (d itself stays)
limpa_files(fs, d) == Remove(fs, { p \in DOMAIN fs : IsUnder(p, d) })

limpa_dirs(ds, d) == { p \in ds : ~ IsUnder(p, d) }

\* the call ends with exception e
Fail(e) ==
    /\ pc' = "idle"
    /\ exc' = e
    /\ csv_paths' = {}
    /\ df' = NoTable
    /\ flag' = FALSE
    /\ trace' = <<>>
    /\ io' = {}
    /\ UNCHANGED <<script, bucket, pending, ano, log, ret, arg, out>>

\* the step is done: the call moves on to step next
Step(stage, effects, next) ==
    /\ pc' = next
    /\ trace' = Append(trace, stage)
    /\ io' = io \cup effects
    /\ UNCHANGED <<script, bucket, pending, ano, flag, log, exc, ret, arg, out>>

\* ----------------------------------------------- scr_pipeline.py: actions

\* pipeline_scrdata, lines 176-190: the year is checked, then the year's
\* directories are made
pipeline_scrdata(y, forcar_download) ==
    /\ script = "scr_pipeline"
    /\ pc = "idle"
    /\ ret' = <<>>
    /\ trace' = <<>>
    /\ IF ~ ano_valido(y)
       THEN /\ exc' = "ValueError"
            /\ pc' = "idle"
            /\ ano' = 0
            /\ flag' = FALSE
            /\ io' = {}
            /\ dirs' = dirs
       ELSE /\ exc' = ""
            /\ pc' = "Download"
            /\ ano' = y
            /\ flag' = forcar_download
            /\ io' = {"mkdir"}
            /\ dirs' = dirs \cup ensure_dir(raw_dir(y)) \cup ensure_dir(extracted_dir(y))
                            \cup ensure_dir(processed_dir(y))
    /\ UNCHANGED <<script, files, bucket, pending, csv_paths, df, log, arg, out>>

\* lines 192-206: the archive is fetched unless it is there and no refresh
\* was asked for; the body is written once it has arrived whole
Download ==
    /\ script = "scr_pipeline"
    /\ pc = "Download"
    /\ IF zip_em_cache(files, ano, flag)
       THEN /\ files' = files
            /\ Step("Download", {}, "Extract")
            /\ UNCHANGED <<csv_paths, df>>
       ELSE \/ \E a \in ArchiveIds :
                 /\ files' = Write(files, zip_path(ano), a)
                 /\ Step("Download", {"http_get"}, "Extract")
                 /\ UNCHANGED <<csv_paths, df>>
            \/ /\ files' = files
               /\ Fail("HTTPError")
    /\ UNCHANGED dirs

\* lines 208-233: unless .csv files are there and no refresh was asked for,
\* the directory is emptied (on a refresh only) and the archive extracted
\* with ZipFile.extractall, no entry being tested
Extract ==
    /\ script = "scr_pipeline"
    /\ pc = "Extract"
    /\ IF ja_extraido(files, ano, flag)
       THEN /\ files' = files
            /\ dirs' = dirs
            /\ Step("Extract", {}, "Load")
            /\ UNCHANGED <<csv_paths, df>>
       ELSE LET dest    == extracted_dir(ano)
                a       == files[zip_path(ano)]
                cleared == IF flag THEN limpa_files(files, dest) ELSE files
                cleand  == IF flag THEN limpa_dirs(dirs, dest) ELSE dirs
            IN  \/ /\ files' = extract_files(cleared, a, namelist(a), dest)
                   /\ dirs' = extract_dirs(cleand, namelist(a), dest)
                   /\ Step("Extract", {"extractall"}, "Load")
                   /\ UNCHANGED <<csv_paths, df>>
                \/ \E ms \in (SUBSET namelist(a)) \ {namelist(a)} :
                      /\ files' = extract_files(cleared, a, ms, dest)
                      /\ dirs' = extract_dirs(cleand, ms, dest)
                      /\ Fail("OSError")        \* extractall broke off

\* between two calls, the archive of a year is deleted from the disk by hand
DeleteArchive(y) ==
    /\ script = "scr_pipeline"
    /\ pc = "idle"
    /\ zip_path(y) \in DOMAIN files
    /\ files' = Remove(files, {zip_path(y)})
    /\ UNCHANGED <<script, dirs, bucket, pc, pending, ano, flag, csv_paths, df,
                   trace, io, log, exc, ret, arg, out>>

\* lines 235-270: the .csv files are located, read and concatenated
Load ==
    /\ script = "scr_pipeline"
    /\ pc = "Load"
    /\ LET found == rglob_csv(files, extracted_dir(ano))
       IN  IF found = {}
           THEN Fail("FileNotFoundError")
           ELSE \/ /\ csv_paths' = found
                   /\ df' = read_and_concat_csvs(files, found)
                   /\ Step("Load", {"read_csv"}, "Transform")
                \/ Fail("ParserError")          \* pd.read_csv fails on a file
    /\ UNCHANGED <<dirs, files>>

\* lines 272-281: processar_scrdata on the table in memory
Transform ==
    /\ script = "scr_pipeline"
    /\ pc = "Transform"
    /\ \/ /\ Step("Transform", {}, "Save")
          /\ UNCHANGED <<csv_paths, df>>
       \/ Fail("MemoryError")
    /\ UNCHANGED <<dirs, files>>

\* lines 283-324: the parquet file is written (salvar_parquet, the default)
\* and the artefacts are returned
Save ==
    /\ script = "scr_pipeline"
    /\ pc = "Save"
    /\ \/ /\ files' = Write(files, parquet_path(ano), "parquet")
          /\ ret' = [zip |-> resolve(zip_path(ano)), df_raw |-> df]
          /\ pc' = "idle"
          /\ trace' = <<>>
          /\ io' = {}
          /\ csv_paths' = {}
          /\ df' = NoTable
          /\ flag' = FALSE
          /\ UNCHANGED <<script, bucket, pending, ano, log, exc, arg, out>>
       \/ /\ files' = files
          /\ Fail("OSError")
    /\ UNCHANGED dirs

\* ------------------------------- scr_s3_pipeline.py: read_and_concat_csvs
\* the function called on its own, with a list of paths of files on disk

\* the .csv files a session that calls the function finds on disk
CsvOnDisk ==
    [ p \in { Name("in") \o << <<"jan", ".csv">> >>, Name("in") \o << <<"fev", ".csv">> >> }
        |-> "jan" ]

\* lines 83-98: every file is read and the parts are concatenated; with no
\* path at all the function returns pd.DataFrame(), an empty table
ReadAndConcat ==
    /\ script = "read_and_concat_csvs"
    /\ pc = "idle"
    /\ pc' = "returned"
    /\ \/ out' = [ raised |-> "", df |-> read_and_concat_csvs(files, arg.csv_paths) ]
       \/ /\ arg.csv_paths # {}
          /\ out' = [ raised |-> "ParserError", df |-> NoTable ]   \* pd.read_csv fails
    /\ UNCHANGED <<script, dirs, files, bucket, pending, ano, flag, csv_paths,
                   df, trace, io, log, exc, ret, arg>>

\* ------------------------------------------------------------ specification

\* the processed objects another host may have published before this session
InitialBuckets == SUBSET { parquet_key(y) : y \in Years }

Init ==
    /\ script \in {"scr_s3_pipeline", "scr_pipeline", "read_and_concat_csvs"}
    /\ dirs = (IF script = "read_and_concat_csvs" THEN ensure_dir(Name("in")) ELSE {})
    /\ files = (IF script = "read_and_concat_csvs" THEN CsvOnDisk ELSE NoFiles)
    /\ bucket \in (IF script = "scr_s3_pipeline" THEN InitialBuckets ELSE {{}})
    /\ pc = "idle"
    /\ pending = <<>>
    /\ ano = 0
    /\ flag = FALSE
    /\ csv_paths = {}
    /\ df = NoTable
    /\ trace = <<>>
    /\ io = {}
    /\ log = <<>>
    /\ exc = ""
    /\ ret = <<>>
    /\ arg \in (IF script = "read_and_concat_csvs"
               THEN { [ csv_paths |-> ps ] : ps \in SUBSET DOMAIN CsvOnDisk }
               ELSE { <<>> })
    /\ out = <<>>

Next ==
    \/ \E s \in Years, e \in Years, ow \in BOOLEAN : main(s, e, ow)
    \/ StartYear
    \/ Downloading
    \/ UploadingRaw
    \/ Extracting
    \/ Loading
    \/ Transforming
    \/ PersistingLocal
    \/ UploadingProcessed
    \/ MainReturn
    \/ \E y \in Years, forcar \in BOOLEAN : pipeline_scrdata(y, forcar)
    \/ Download
    \/ Extract
    \/ Load
    \/ Transform
    \/ Save
    \/ \E y \in Years : DeleteArchive(y)
    \/ ReadAndConcat

Spec == Init /\ [][Next]_vars

\* ------------------------------------------ scr_pipeline.py: processar_scrdata
\* A table is [cols, rows]: the set of its column names (as they are after
\* step 1, the normalisation of the names) and the sequence of its rows in
\* order; a row is [index, cells], cells a function from cols to values.
\* A value is a record [k, n, d, s]: NaN or NaT (k = "nan"), the finite number
\* n/d in lowest terms with d > 0 (k = "num"), an infinity of sign n
\* (k = "inf"), the month n = yyyymm of a parsed date (k = "date"), or the
\* text s, a sequence of characters (k = "str").
\* A column is of dtype object exactly when one of its cells is a text: this
\* is what read_csv and concat produce (a numeric column, a column of texts
\* with missing values, or both kinds of cells after a concatenation).

NaN == [k |-> "nan", n |-> 0, d |-> 1, s |-> <<>>]

Frac(a, b) == [k |-> "num", n |-> a, d |-> b, s |-> <<>>]

Num(a) == Frac(a, 1)

Inf(sign) == [k |-> "inf", n |-> sign, d |-> 1, s |-> <<>>]

Timestamp(yyyymm) == [k |-> "date", n |-> yyyymm, d |-> 1, s |-> <<>>]

Text(chars) == [k |-> "str", n |-> 0, d |-> 1, s |-> chars]

Zero == Num(0)

Abs(a) == IF a < 0 THEN -a ELSE a

RECURSIVE GCD(_, _)
GCD(a, b) == IF b = 0 THEN a ELSE GCD(b, a % b)

RECURSIVE Pow10(_)
Pow10(e) == IF e = 0 THEN 1 ELSE 10 * Pow10(e - 1)

Reduced(a, b) ==
    LET g == GCD(Abs(a), Abs(b))
        sg == IF b < 0 THEN -1 ELSE 1
    IN  Frac((sg * a) \div g, (sg * b) \div g)

\* float division of finite numbers or NaN: x / 0 is an infinity of the
\* sign of x, 0 / 0 is NaN, NaN on either side gives NaN
Div(x, y) ==
    IF x.k # "num" \/ y.k # "num" THEN NaN
    ELSE IF y.n = 0
         THEN (IF x.n > 0 THEN Inf(1) ELSE IF x.n < 0 THEN Inf(-1) ELSE NaN)
         ELSE Reduced(x.n * y.d, x.d * y.n)

\* .replace([np.inf, -np.inf], np.nan)
replace_inf(v) == IF v.k = "inf" THEN NaN ELSE v

\* x > y on numbers or on dates; False when either side is NaN or NaT
Gt(x, y) ==
    /\ x.k \in {"num", "date"}
    /\ y.k = x.k
    /\ x.n * y.d > y.n * x.d

Digits == <<"0", "1", "2", "3", "4", "5", "6", "7", "8", "9">>

IsDigit(c) == \E i \in DOMAIN Digits : Digits[i] = c

DigitVal(c) == (CHOOSE i \in DOMAIN Digits : Digits[i] = c) - 1

AllDigits(s) == \A i \in DOMAIN s : IsDigit(s[i])

RECURSIVE NatVal(_)
NatVal(s) == IF s = <<>> THEN 0 ELSE 10 * NatVal(Front(s)) + DigitVal(Last(s))

\* str.replace(old, new, regex=False) for a one-character old; new is a
\* sequence of characters, empty to delete
RECURSIVE str_replace(_, _, _)
str_replace(s, old, new) ==
    IF s = <<>> THEN <<>>
    ELSE (IF Head(s) = old THEN new ELSE <<Head(s)>>) \o str_replace(Tail(s), old, new)

\* pd.to_numeric(errors="coerce") of one text written with an optional
\* sign, digits and at most one decimal point; any other text gives NaN
to_numeric(s) ==
    LET neg == s # <<>> /\ Head(s) = "-"
        u == IF neg THEN Tail(s) ELSE s
        dots == { i \in DOMAIN u : u[i] = "." }
        p == IF dots = {} THEN Len(u) + 1 ELSE CHOOSE i \in dots : TRUE
        int == SubSeq(u, 1, p - 1)
        frac == SubSeq(u, p + 1, Len(u))
        ok == /\ Cardinality(dots) <= 1
              /\ AllDigits(int)
              /\ AllDigits(frac)
              /\ Len(int) + Len(frac) > 0
        m == NatVal(int) * Pow10(Len(frac)) + NatVal(frac)
    IN  IF ok THEN Reduced(IF neg THEN -m ELSE m, Pow10(Len(frac))) ELSE NaN

\* pd.to_datetime(errors="coerce") of one cell: a text yyyy-mm with a month
\* of the calendar gives its date; any other cell gives NaT
to_datetime(v) ==
    IF /\ v.k = "str"
       /\ Len(v.s) = 7
       /\ v.s[5] = "-"
       /\ AllDigits(SubSeq(v.s, 1, 4))
       /\ AllDigits(SubSeq(v.s, 6, 7))
       /\ NatVal(SubSeq(v.s, 6, 7)) \in 1 .. 12
    THEN Timestamp(NatVal(SubSeq(v.s, 1, 4)) * 100 + NatVal(SubSeq(v.s, 6, 7)))
    ELSE NaN

\* df[c] = series: series[i] is the value for row i
with_column(t, c, series) ==
    [ cols |-> t.cols \cup {c},
      rows |-> [ i \in DOMAIN t.rows |->
                   [ index |-> t.rows[i].index,
                     cells |-> [ col \in t.cols \cup {c} |->
                                   IF col = c THEN series[i]
                                   ELSE t.rows[i].cells[col] ] ] ] ]

parsed_data_base(r) == to_datetime(r["data_base"])

dt_year(r) == IF r["data_base"].k = "date" THEN Num(r["data_base"].n \div 100) ELSE NaN

dt_month(r) == IF r["data_base"].k = "date" THEN Num(r["data_base"].n % 100) ELSE NaN

\* lines 54-58
converter_data(t) ==
    IF "data_base" \in t.cols
    THEN LET t1 == with_column(t, "data_base",
                               [ i \in DOMAIN t.rows |-> parsed_data_base(t.rows[i].cells) ])
             t2 == with_column(t1, "ano", [ i \in DOMAIN t1.rows |-> dt_year(t1.rows[i].cells) ])
         IN  with_column(t2, "mes", [ i \in DOMAIN t2.rows |-> dt_month(t2.rows[i].cells) ])
    ELSE t

colunas_texto ==
    {"uf", "segmento", "cliente", "cnae_ocupacao", "porte", "modalidade",
     "submodalidade", "origem", "indexador"}

colunas_para_converter(t) ==
    (t.cols \ colunas_texto) \ {"data_base", "ano", "mes", "__arquivo_origem"}

\* df[c].dtype == "object"
dtype_object(t, c) == \E i \in DOMAIN t.rows : t.rows[i].cells[c].k = "str"

\* lines 79-84 on one cell of an object column: the str methods give NaN
\* for a cell that is not a text, and to_numeric leaves that NaN
converter_valor(v) ==
    IF v.k = "str"
    THEN to_numeric(str_replace(str_replace(v.s, ".", <<>>), ",", <<".">>))
    ELSE NaN

\* lines 64-86
converter_valores(t) ==
    [ cols |-> t.cols,
      rows |-> [ i \in DOMAIN t.rows |->
                   [ index |-> t.rows[i].index,
                     cells |-> [ c \in t.cols |->
                                   IF c \in colunas_para_converter(t) /\ dtype_object(t, c)
                                   THEN converter_valor(t.rows[i].cells[c])
                                   ELSE t.rows[i].cells[c] ] ] ] ]

\* the ratio with its infinities left in
ratio_raw(r, numerador) == Div(r[numerador], r["carteira_ativa"])

\* lines 94-97, 100-103, 106-109
ratio(r, numerador) == replace_inf(Div(r[numerador], r["carteira_ativa"]))

taxa_inadimplencia(r) == ratio(r, "carteira_inadimplencia")

perc_carteira_vencida(r) == ratio(r, "carteira_vencida")

taxa_ativo_problematico(r) == ratio(r, "ativo_problematico")

\* lines 91-109
indicadores(t) ==
    LET t1 == IF {"carteira_inadimplencia", "carteira_ativa"} \subseteq t.cols
              THEN with_column(t, "taxa_inadimplencia",
                               [ i \in DOMAIN t.rows |-> taxa_inadimplencia(t.rows[i].cells) ])
              ELSE t
        t2 == IF {"carteira_vencida", "carteira_ativa"} \subseteq t1.cols
              THEN with_column(t1, "perc_carteira_vencida",
                               [ i \in DOMAIN t1.rows |-> perc_carteira_vencida(t1.rows[i].cells) ])
              ELSE t1
        t3 == IF {"ativo_problematico", "carteira_ativa"} \subseteq t2.cols
              THEN with_column(t2, "taxa_ativo_problematico",
                               [ i \in DOMAIN t2.rows |-> taxa_ativo_problematico(t2.rows[i].cells) ])
              ELSE t2
    IN  t3

\* line 116: df["carteira_ativa"] > 0
carteira_positiva(r) == Gt(r["carteira_ativa"], Zero)

\* lines 114-116
remover(t) ==
    [ cols |-> t.cols,
      rows |-> SelectSeq(t.rows, LAMBDA row : carteira_positiva(row.cells)) ]

vencida_maior(r) == Gt(r["carteira_vencida"], r["carteira_ativa"])

\* lines 125-129: the number of rows the check reports (0: nothing is printed)
inconsistentes(t) ==
    IF {"carteira_ativa", "carteira_vencida"} \subseteq t.cols
    THEN Len(SelectSeq(t.rows, LAMBDA row : vencida_maior(row.cells)))
    ELSE 0

\* lines 37-120, steps 1 to 5: the table as it reaches the consistency check
antes_da_checagem(t, remover_zeros, criar_indicadores) ==
    LET t2 == converter_data(t)
        t3 == converter_valores(t2)
        t4 == IF criar_indicadores THEN indicadores(t3) ELSE t3
    IN  IF remover_zeros /\ "carteira_ativa" \in t4.cols THEN remover(t4) ELSE t4

\* faulty variant: the check drops the rows it counts
checar_consistencia_remove(t) ==
    [ df |-> IF {"carteira_ativa", "carteira_vencida"} \subseteq t.cols
             THEN [ cols |-> t.cols,
                    rows |-> SelectSeq(t.rows, LAMBDA row : ~ vencida_maior(row.cells)) ]
             ELSE t,
      inconsistentes |-> inconsistentes(t) ]

\* lines 125-129, step 6: the rows are selected into a table of their own
\* and counted; df is not assigned
checar_consistencia(t) == [ df |-> t, inconsistentes |-> inconsistentes(t) ]

\* faulty variant: the rows are left in the order they have
sort_values_none(t) == {t}

\* lines 134-135, the orders sort_values("data_base") may give (quicksort,
\* na_position last): the dated rows in ascending order of date, rows of the
\* same date in any order, then the rows without a date in the order they had
sort_values(t) ==
    IF "data_base" \in t.cols
    THEN LET len == Len(t.rows)
         IN  { [ cols |-> t.cols, rows |-> [ i \in 1 .. len |-> t.rows[f[i]] ] ] :
                 f \in { g \in [1 .. len -> 1 .. len] :
                           /\ \A i, j \in 1 .. len : i # j => g[i] # g[j]
                           /\ \A i, j \in 1 .. len :
                                 i < j =>
                                    LET a == t.rows[g[i]].cells["data_base"]
                                        b == t.rows[g[j]].cells["data_base"]
                                    IN  /\ ~ Gt(a, b)
                                        /\ a.k = "nan" => b.k = "nan"
                                        /\ (a.k = "nan" /\ b.k = "nan") => g[i] < g[j] } }
    ELSE {t}

\* line 140: reset_index(drop=True)
reset_index(t) ==
    [ cols |-> t.cols,
      rows |-> [ i \in DOMAIN t.rows |-> [ index |-> i - 1, cells |-> t.rows[i].cells ] ] ]

\* lines 29-147: what processar_scrdata(df, remover_zeros, criar_indicadores)
\* may return: the table, the count its consistency check reports, and the
\* index labels its rows carried just before line 140 renumbered them
processar_results(t, remover_zeros, criar_indicadores) ==
    LET t6 == checar_consistencia(antes_da_checagem(t, remover_zeros, criar_indicadores))
    IN  { [ df |-> reset_index(t7),
            inconsistentes |-> t6.inconsistentes,
            ordem |-> [ i \in DOMAIN t7.rows |-> t7.rows[i].index ] ] :
            t7 \in sort_values(t6.df) }

\* the tables given to processar_scrdata: the columns of a table and, for
\* each column, the cells its rows draw from
Schemas ==
    { {"carteira_ativa"},
      {"uf", "carteira_ativa"},
      {"data_base", "carteira_ativa", "carteira_inadimplencia"},
      {"carteira_ativa", "carteira_vencida", "ativo_problematico"},
      {"data_base", "carteira_inadimplencia"} }

CellsOf(c) ==
    CASE c = "data_base" ->
           { Text(<<"2", "0", "1", "2", "-", "0", "1">>),
             Text(<<"2", "0", "1", "2", "-", "0", "2">>),
             Text(<<"2", "0", "1", "2", "-", "1", "3">>) }
      [] c = "carteira_ativa" ->
           { NaN, Num(0), Num(1000),
             Text(<<"1", ".", "0", "0", "0", ",", "0", "0">>),
             Text(<<"0", ",", "0", "0">>),
             Text(<<"-", "1", ",", "0", "0">>) }
      [] c = "carteira_inadimplencia" ->
           { NaN, Num(50), Text(<<"5", "0", ",", "0", "0">>) }
      [] c = "carteira_vencida" -> { NaN, Num(2000) }
      [] c = "ativo_problematico" -> { Num(0), Num(-5) }
      [] c = "uf" -> { Text(<<"S", "P">>) }

RowsOf(cols) ==
    { r \in [cols -> UNION { CellsOf(c) : c \in cols }] : \A c \in cols : r[c] \in CellsOf(c) }

\* the table of the given columns and rows, indexed from 0 as concat with
\* ignore_index leaves it
DataFrame(cols, rs) ==
    [ cols |-> cols,
      rows |-> [ i \in DOMAIN rs |-> [ index |-> i - 1, cells |-> rs[i] ] ] ]

processar_scrdata(remover_zeros, criar_indicadores) ==
    /\ script = "processar_scrdata"
    /\ pc = "idle"
    /\ pc' = "returned"
    /\ \E r \in processar_results(arg.df, remover_zeros, criar_indicadores) :
          out' = [ remover_zeros |-> remover_zeros,
                   criar_indicadores |-> criar_indicadores,
                   df |-> r.df,
                   inconsistentes |-> r.inconsistentes,
                   ordem |-> r.ordem ]
    /\ UNCHANGED <<script, dirs, files, bucket, pending, ano, flag, csv_paths,
                   df, trace, io, log, exc, ret, arg>>

InitProc ==
    /\ script = "processar_scrdata"
    /\ dirs = {}
    /\ files = NoFiles
    /\ bucket = {}
    /\ pc = "idle"
    /\ pending = <<>>
    /\ ano = 0
    /\ flag = FALSE
    /\ csv_paths = {}
    /\ df = NoTable
    /\ trace = <<>>
    /\ io = {}
    /\ log = <<>>
    /\ exc = ""
    /\ ret = <<>>
    /\ \E cols \in Schemas, len \in 0 .. MaxRows :
          \E rs \in [1 .. len -> RowsOf(cols)] : arg = [ df |-> DataFrame(cols, rs) ]
    /\ out = <<>>

NextProc == \E remover_zeros, criar_indicadores \in BOOLEAN :
               processar_scrdata(remover_zeros, criar_indicadores)

SpecProc == InitProc /\ [][NextProc]_vars

\* ------------------------------------------------- infer_sep / inferir_sep
\* A csv file is a sequence of bytes: ";", ",", an ordinary byte "x", or
\* "\xff", a byte that is not valid UTF-8.

Bytes == {";", ",", "x", "\\xff"}

\* the number of leading bytes the sample takes (50_000 in the source)
SampleBytes == 3

Encodings == {"utf-8", "latin1"}

\* bytes.decode(encoding, errors="ignore"): latin1 maps every byte to a
\* character, utf-8 drops the bytes it cannot decode
RECURSIVE decode(_, _)
decode(bs, encoding) ==
    IF bs = <<>> THEN <<>>
    ELSE (IF Head(bs) = "\\xff"
          THEN (IF encoding = "latin1" THEN <<"y">> ELSE <<>>)
          ELSE <<Head(bs)>>) \o decode(Tail(bs), encoding)

\* text.count(c)
RECURSIVE count(_, _)
count(text, c) ==
    IF text = <<>> THEN 0
    ELSE (IF Head(text) = c THEN 1 ELSE 0) + count(Tail(text), c)

\* csv_path.read_bytes()[:50_000]
read_sample(bs) == SubSeq(bs, 1, IF Len(bs) < SampleBytes THEN Len(bs) ELSE SampleBytes)

\* the tie goes to the semicolon
infer_sep_tie(bs, encoding) ==
    LET text == decode(read_sample(bs), encoding)
    IN  IF count(text, ";") >= count(text, ",") THEN ";" ELSE ","

\* scr_s3_pipeline.py lines 77-80
infer_sep(bs, encoding) ==
    LET text == decode(read_sample(bs), encoding)
    IN  IF count(text, ";") > count(text, ",") THEN ";" ELSE ","

\* scr_pipeline.py lines 248-251
inferir_sep(bs, enc) ==
    LET text == decode(read_sample(bs), enc)
    IN  IF count(text, ";") > count(text, ",") THEN ";" ELSE ","

RECURSIVE SeqsUpTo(_, _)
SeqsUpTo(S, len) ==
    IF len = 0 THEN {<<>>}
    ELSE LET shorter == SeqsUpTo(S, len - 1)
         IN  shorter \cup { Append(q, x) : q \in shorter, x \in S }

CallInferSep ==
    /\ script = "infer_sep"
    /\ out.infer_sep = ""
    /\ out' = [out EXCEPT !.infer_sep = infer_sep(arg.csv, arg.encoding)]
    /\ UNCHANGED <<script, dirs, files, bucket, pc, pending, ano, flag, csv_paths,
                   df, trace, io, log, exc, ret, arg>>

CallInferirSep ==
    /\ script = "infer_sep"
    /\ out.inferir_sep = ""
    /\ out' = [out EXCEPT !.inferir_sep = inferir_sep(arg.csv, arg.encoding)]
    /\ UNCHANGED <<script, dirs, files, bucket, pc, pending, ano, flag, csv_paths,
                   df, trace, io, log, exc, ret, arg>>

InitSep ==
    /\ script = "infer_sep"
    /\ dirs = {}
    /\ files = NoFiles
    /\ bucket = {}
    /\ pc = "idle"
    /\ pending = <<>>
    /\ ano = 0
    /\ flag = FALSE
    /\ csv_paths = {}
    /\ df = NoTable
    /\ trace = <<>>
    /\ io = {}
    /\ log = <<>>
    /\ exc = ""
    /\ ret = <<>>
    /\ arg \in { [ csv |-> bs, encoding |-> e ] : bs \in SeqsUpTo(Bytes, MaxLen), e \in Encodings }
    /\ out = [ infer_sep |-> "", inferir_sep |-> "" ]

NextSep == CallInferSep \/ CallInferirSep

SpecSep == InitSep /\ [][NextSep]_vars

\* ------------------------------------------------------- claims C1 .. C7

StageSet == { Stages[i] : i \in 1 .. (Len(Stages) - 1) }

IsPrefix(s, t) == Len(s) <= Len(t) /\ SubSeq(t, 1, Len(s)) = s

\* the step in which process_year_to_s3 starts for year y with the processed
\* object of y in the bucket and overwrite not asked for
SkipCase(y) ==
    /\ script = "scr_s3_pipeline"
    /\ pc = "loop"
    /\ pending # <<>>
    /\ Head(pending) = y
    /\ ~ flag
    /\ parquet_key(y) \in bucket
    /\ pending' = Tail(pending)

YearDirs(y) ==
    ensure_dir(s3_raw_dir(y)) \cup ensure_dir(s3_extracted_dir(y))
        \cup ensure_dir(s3_processed_dir(y))

\* C1 as stated (for the years of the valid range): when the processed object
\* of the year exists and overwrite is not asked for, the run returns as
\* skipped, no stage of the year runs, and the local disk and the bucket are
\* exactly as before the call.
C1_SkipLeavesAllUntouched ==
    [][ \A y \in Years : (ano_valido(y) /\ SkipCase(y)) =>
            /\ pc' = "loop"
            /\ trace' = <<>>
            /\ Last(log').result = "Skipped"
            /\ files' = files
            /\ bucket' = bucket
            /\ dirs' = dirs ]_vars

\* C1 amended: in that case the run returns as skipped and no stage of the
\* year runs (no download, upload, clearing, extraction, load, transform or
\* parquet write); files and bucket are as before, and the only effect on the
\* local disk is that the year's raw, extracted and processed directories
\* exist, which are made before the probe.
C1_SkipRunsNoStage ==
    [][ \A y \in Years : SkipCase(y) =>
            /\ pc' = "loop"
            /\ trace' = <<>>
            /\ Last(log') = [ano |-> y, result |-> "Skipped"]
            /\ io' \subseteq {"mkdir", "head_object"}
            /\ files' = files
            /\ bucket' = bucket
            /\ dirs' = dirs \cup YearDirs(y) ]_vars

C1_Witness ==
    /\ script = "scr_s3_pipeline"
    /\ pc = "loop"
    /\ log # <<>>
    /\ Last(log) = [ano |-> ano, result |-> "Skipped"]
    /\ parquet_key(ano) \in bucket
    /\ DOMAIN files = {}

\* C2: no run is ever started and no I/O is ever done for a year outside
\* [1900, 2100]: its directories, files and objects are never made.
C2_InvalidYearNoIO ==
    \A y \in Years : ~ ano_valido(y) =>
        /\ ano # y
        /\ s3_ano_dir(y) \notin dirs
        /\ ano_dir(y) \notin dirs
        /\ zip_local(y) \notin DOMAIN files
        /\ zip_key(y) \notin bucket

\* entry m of an archive extracted into dest resolves outside dest
Escapes(dest, m) ==
    LET r == resolve(dest \o m)
        d == resolve(dest)
    IN  ~ (r = d \/ IsUnder(r, d))

\* the step that extracts archive a into dest, in either pipeline
ExtractionOf(a, dest) ==
    \/ /\ script = "scr_s3_pipeline"
       /\ pc = "Extracting"
       /\ pc' # pc
       /\ a = files[zip_local(ano)]
       /\ dest = s3_extracted_dir(ano)
    \/ /\ script = "scr_pipeline"
       /\ pc = "Extract"
       /\ pc' # pc
       /\ ~ ja_extraido(files, ano, flag)
       /\ a = files[zip_path(ano)]
       /\ dest = extracted_dir(ano)

ExtractionDests ==
    { s3_extracted_dir(y) : y \in Years } \cup { extracted_dir(y) : y \in Years }

\* C3: extracting an archive with an entry that resolves outside the
\* destination fails with the security error, writes no entry at all and
\* makes no file outside the destination, in both pipelines.
C3_ZipSlipRejected ==
    [][ \A a \in ArchiveIds, dest \in ExtractionDests :
            (ExtractionOf(a, dest) /\ \E m \in namelist(a) : Escapes(dest, m)) =>
                /\ exc' = "RuntimeError"
                /\ \A p \in DOMAIN files' :
                       p \in DOMAIN files /\ files'[p] = files[p] ]_vars

HasArchive(fs, p) == p \in DOMAIN fs /\ fs[p] \in ArchiveIds

\* the fetch step of either pipeline, taken with the (whole) archive at its
\* place and no refresh forced
CachedFetch(pipelines) ==
    /\ script \in pipelines
    /\ ~ flag
    /\ pc' # pc
    /\ \/ pc = "Download" /\ HasArchive(files, zip_path(ano))
       \/ pc = "Downloading" /\ HasArchive(files, zip_local(ano))

C5_StageOrder ==
    script = "scr_s3_pipeline" =>
        /\ IsPrefix(trace, Stages)
        /\ pc \in StageSet => pc = Stages[Len(trace) + 1]
        /\ pc \in StageSet => io \cap {"upload_processed"} = {}
        /\ "upload_raw" \in io => "http_get" \in io
        /\ "extractall" \in io => "upload_raw" \in io
        /\ "read_csv" \in io => "extractall" \in io
        /\ "to_parquet" \in io => "read_csv" \in io /\ Len(trace) >= 5
        /\ "upload_processed" \in io => "to_parquet" \in io /\ trace = Stages
        /\ (trace # <<>> /\ Last(trace) = "Done") =>
               /\ "upload_processed" \in io
               /\ parquet_key(ano) \in bucket
               /\ zip_key(ano) \in bucket
               /\ Last(log) = [ano |-> ano, result |-> "Done"]

C5_Witness ==
    /\ script = "scr_s3_pipeline"
    /\ trace = Stages
    /\ ano_valido(ano)
    /\ parquet_key(ano) \in bucket

\* a stage of the year's run fails: the run ends with the stage's exception
StageFails ==
    /\ script = "scr_s3_pipeline"
    /\ pc \in StageSet
    /\ pc' = "idle"

\* the run of year y starts, without overwrite, next after a failed run of y
RerunAfterFailure(y) ==
    /\ script = "scr_s3_pipeline"
    /\ pc = "loop"
    /\ pending # <<>>
    /\ Head(pending) = y
    /\ pending' = Tail(pending)
    /\ ~ flag
    /\ ano = y
    /\ exc \notin {"", "ValueError"}

\* C6 as stated (for the years of the valid range): a failing stage ends the
\* run with its error, no later stage runs and no upload is undone; the run
\* of that year started next, without overwrite, does not take the skip
\* branch and starts again at the download.
C6_FailureThenRerun ==
    [][ /\ StageFails =>
            /\ exc' \notin {"", "ValueError"}
            /\ Last(log') = [ano |-> ano, result |-> exc']
            /\ bucket \subseteq bucket'
        /\ \A y \in Years : (ano_valido(y) /\ RerunAfterFailure(y)) =>
            /\ pc' = "Downloading"
            /\ trace' = <<>> ]_vars

\* C6 amended: a failing stage ends the run with its error, no later stage
\* runs and no upload is undone; the failed run does not write the processed
\* object, so that none is there if the run was started without overwrite;
\* the run of that year started next, without overwrite, does not take the
\* skip branch and starts again at the download if no processed object of the
\* year is there; if one is (it was there before a failed overwrite run), it
\* is still there and the run is skipped.
C6_FailureKeepsUploads ==
    [][ /\ StageFails =>
            /\ exc' \notin {"", "ValueError"}
            /\ Last(log') = [ano |-> ano, result |-> exc']
            /\ bucket' = bucket \/ bucket' = bucket \cup {zip_key(ano)}
            /\ parquet_key(ano) \in bucket' <=> parquet_key(ano) \in bucket
            /\ ~ flag => parquet_key(ano) \notin bucket'
        /\ \A y \in Years : RerunAfterFailure(y) =>
            /\ parquet_key(y) \notin bucket => pc' = "Downloading" /\ trace' = <<>>
            /\ parquet_key(y) \in bucket => pc' = "loop" /\ bucket' = bucket ]_vars

C6_Witness ==
    /\ script = "scr_s3_pipeline"
    /\ pc = "idle"
    /\ exc = "RuntimeError"
    /\ ano_valido(ano)
    /\ zip_key(ano) \in bucket
    /\ parquet_key(ano) \notin bucket

LogOk(i) == log[i].result \in {"Done", "Skipped"}

\* C7: main takes the years in ascending order, one at a time: a year's run
\* has ended as Done or Skipped before the next year's starts; when a year's
\* run fails, main ends with that error and the later years are not started;
\* the years done keep their objects.
C7_BatchSequential ==
    script = "scr_s3_pipeline" =>
        /\ \A i \in 1 .. Len(log) : log[i].ano = log[1].ano + i - 1
        /\ \A i \in 1 .. (Len(log) - 1) : LogOk(i)
        /\ \A i \in 1 .. Len(pending) : pending[i] = pending[1] + i - 1
        /\ (pc \notin StageSet /\ log # <<>> /\ pending # <<>>) =>
               pending[1] = Last(log).ano + 1
        /\ pc \in StageSet =>
               /\ \A i \in 1 .. Len(log) : LogOk(i)
               /\ log # <<>> => ano = Last(log).ano + 1
               /\ pending # <<>> => pending[1] = ano + 1
        /\ (pc = "loop" /\ log # <<>>) => LogOk(Len(log)) /\ Last(log).ano = ano
        /\ (log # <<>> /\ ~ LogOk(Len(log))) =>
               /\ pc = "idle"
               /\ exc = Last(log).result
               /\ ano = Last(log).ano
        /\ \A i \in 1 .. Len(log) :
               log[i].result = "Done" =>
                   {zip_key(log[i].ano), parquet_key(log[i].ano)} \subseteq bucket

C7_Witness ==
    /\ script = "scr_s3_pipeline"
    /\ pc = "idle"
    /\ Len(log) = 1
    /\ ~ LogOk(1)
    /\ pending # <<>>

\* ------------------------------------------------------- claims C8 .. C10

\* the value a cell of the input stands for: a text of a numeric column
\* stands for the number it writes in the locale format, a text of the date
\* column for its date, any other cell for itself
stands_for(t, c, v) ==
    IF c = "data_base" THEN to_datetime(v)
    ELSE IF c \in colunas_para_converter(t) /\ v.k = "str" THEN converter_valor(v)
    ELSE v

Returned == script = "processar_scrdata" /\ pc = "returned"

\* the index labels of the input rows whose carteira_ativa stands for a
\* number above zero
PositiveInput ==
    { arg.df.rows[i].index : i \in { j \in DOMAIN arg.df.rows :
          Gt(stands_for(arg.df, "carteira_ativa", arg.df.rows[j].cells["carteira_ativa"]), Zero) } }

\* C8: for a table with a carteira_ativa column, with removal enabled every
\* output row has carteira_ativa > 0 and the output rows are exactly the
\* input rows whose carteira_ativa is above zero; with removal disabled
\* every input row is in the output with the values its cells stand for
C8_FilterKeepsPositiveRows ==
    (Returned /\ "carteira_ativa" \in arg.df.cols) =>
        LET rows == out.df.rows
            kept == { out.ordem[i] : i \in DOMAIN out.ordem }
        IN  IF out.remover_zeros
            THEN /\ \A i \in DOMAIN rows : Gt(rows[i].cells["carteira_ativa"], Zero)
                 /\ kept = PositiveInput
            ELSE /\ kept = { arg.df.rows[i].index : i \in DOMAIN arg.df.rows }
                 /\ \A i \in DOMAIN rows : \A c \in arg.df.cols :
                       rows[i].cells[c] =
                          stands_for(arg.df, c, arg.df.rows[out.ordem[i] + 1].cells[c])

Indicadores ==
    { <<"taxa_inadimplencia", "carteira_inadimplencia">>,
      <<"perc_carteira_vencida", "carteira_vencida">>,
      <<"taxa_ativo_problematico", "ativo_problematico">> }

\* v is the quotient of the numbers a and b, b not zero
IsQuotient(v, a, b) == v.k = "num" /\ v.n * b.n * a.d = a.n * b.d * v.d

\* C9: with derivation enabled and the source columns present, each
\* indicator of each output row is numerator / carteira_ativa when both are
\* numbers and carteira_ativa is not zero, is null when carteira_ativa is
\* zero or null or the numerator is null, and is never infinite
C9_IndicatorIsRatioOrNull ==
    (Returned /\ out.criar_indicadores) =>
        \A p \in Indicadores :
            {p[2], "carteira_ativa"} \subseteq arg.df.cols =>
                /\ p[1] \in out.df.cols
                /\ \A i \in DOMAIN out.df.rows :
                      LET r == out.df.rows[i].cells
                          a == r[p[2]]
                          b == r["carteira_ativa"]
                      IN  /\ r[p[1]].k # "inf"
                          /\ (a.k = "num" /\ b.k = "num" /\ b.n # 0) => IsQuotient(r[p[1]], a, b)
                          /\ (a.k = "nan" \/ b.k = "nan" \/ b = Zero) => r[p[1]] = NaN

\* 50 / 1000 = 0.05 in one row, a null rate for a zero portfolio in another
C9_Witness ==
    /\ Returned
    /\ out.criar_indicadores
    /\ "taxa_inadimplencia" \in out.df.cols
    /\ \E i, j \in DOMAIN out.df.rows :
          /\ out.df.rows[i].cells["carteira_ativa"] = Num(1000)
          /\ out.df.rows[i].cells["carteira_inadimplencia"] = Num(50)
          /\ out.df.rows[i].cells["taxa_inadimplencia"] = Frac(1, 20)
          /\ out.df.rows[j].cells["carteira_ativa"] = Zero
          /\ out.df.rows[j].cells["carteira_inadimplencia"] = Num(50)
          /\ out.df.rows[j].cells["taxa_inadimplencia"] = NaN

\* the sample text of the call, character by character
SampleText ==
    LET n == IF Len(arg.csv) < SampleBytes THEN Len(arg.csv) ELSE SampleBytes
    IN  [ i \in 1 .. n |->
            IF arg.csv[i] # "\\xff" THEN arg.csv[i]
            ELSE IF arg.encoding = "latin1" THEN "y" ELSE "dropped" ]

Occurrences(c) == Cardinality({ i \in DOMAIN SampleText : SampleText[i] = c })

MoreSemicolons == Occurrences(";") > Occurrences(",")

\* C10: the delimiter inferred from a sample is the semicolon exactly when
\* the sample has more semicolons than commas, the comma otherwise, and the
\* two pipelines infer the same delimiter
C10_DelimiterByCount ==
    script = "infer_sep" =>
        /\ out.infer_sep # "" => (out.infer_sep = (IF MoreSemicolons THEN ";" ELSE ","))
        /\ out.inferir_sep # "" => (out.inferir_sep = (IF MoreSemicolons THEN ";" ELSE ","))
        /\ (out.infer_sep # "" /\ out.inferir_sep # "") => out.infer_sep = out.inferir_sep

\* a tie with both characters present: both implementations answer comma
C10_Witness ==
    /\ script = "infer_sep"
    /\ Occurrences(";") = 1
    /\ Occurrences(",") = 1
    /\ out.infer_sep = ","
    /\ out.inferir_sep = ","

\* ------------------------------------------------------ claims C11 .. C15

\* the load step is about to run and the extraction directory has no .csv
NoCsvAtLoad ==
    \/ pc = "Loading" /\ rglob_csv(files, s3_extracted_dir(ano)) = {}
    \/ pc = "Load" /\ rglob_csv(files, extracted_dir(ano)) = {}

\* the step ends the run with the empty-input error: nothing is in memory,
\* nothing was written to disk or to the bucket
StopsWithEmptyInput ==
    /\ pc' = "idle"
    /\ exc' = "FileNotFoundError"
    /\ df' = NoTable
    /\ csv_paths' = {}
    /\ files' = files
    /\ bucket' = bucket

\* the steps of a run that work on the loaded table
AfterLoad == {"Transforming", "PersistingLocal", "UploadingProcessed", "Transform", "Save"}

EmptyInputInPipelines ==
    /\ NoCsvAtLoad => StopsWithEmptyInput
    /\ pc' \in AfterLoad => (csv_paths' # {} /\ df' # {})

\* read_and_concat_csvs was called on its own with no path
CalledWithNoPath ==
    script = "read_and_concat_csvs" /\ pc = "idle" /\ pc' = "returned" /\ arg.csv_paths = {}

RefreshExtraction ==
    \/ pc = "Extracting" /\ pc' = "Loading"
    \/ pc = "Extract" /\ flag /\ pc' = "Load"

RefreshDest == IF pc = "Extracting" THEN s3_extracted_dir(ano) ELSE extracted_dir(ano)

RefreshZip == IF pc = "Extracting" THEN zip_local(ano) ELSE zip_path(ano)

\* C12: after a successful extraction of a refresh, the files below the
\* extraction directory are exactly the entries of the archive this run
\* fetched, each with that archive's content, and the directories below it
\* are exactly those of the entries: nothing of an earlier run is left
C12_RefreshLeavesOnlyNewArchive ==
    [][ RefreshExtraction =>
          LET dest    == RefreshDest
              a       == files[RefreshZip]
              entries == { extract_target(dest, m) : m \in namelist(a) }
          IN  /\ "http_get" \in io
              /\ a \in ArchiveIds
              /\ { p \in DOMAIN files' : IsUnder(p, dest) } = entries
              /\ \A p \in entries : files'[p] = a
              /\ { d \in dirs' : IsUnder(d, dest) } =
                    { d \in UNION { ensure_dir(Front(p)) : p \in entries } : IsUnder(d, dest) } ]_vars

\* a refresh of a year that an earlier run completed (its parquet file is
\* there, so .csv files were in the directory) has extracted an archive
\* without any .csv: none of the earlier files is left
C12_Witness ==
    /\ script = "scr_pipeline"
    /\ pc = "Load"
    /\ flag
    /\ parquet_path(ano) \in DOMAIN files
    /\ files[zip_path(ano)] = "nocsv"
    /\ rglob_csv(files, extracted_dir(ano)) = {}

\* what processar_scrdata may return for the call's table and flags when
\* lines 122-129 are removed: steps 1 to 5, then the sort and the new index
WithoutCheck(remover_zeros, criar_indicadores) ==
    { reset_index(t7) :
        t7 \in sort_values(antes_da_checagem(arg.df, remover_zeros, criar_indicadores)) }

\* the positions of the rows of t whose carteira_vencida is above carteira_ativa
InconsistentRows(t) ==
    IF {"carteira_ativa", "carteira_vencida"} \subseteq t.cols
    THEN { i \in DOMAIN t.rows :
             Gt(t.rows[i].cells["carteira_vencida"], t.rows[i].cells["carteira_ativa"]) }
    ELSE {}

\* C13: the table processar_scrdata returns is one the function returns
\* with the consistency check removed, and every table it returns without
\* the check it may return with it: same columns, rows, values and order,
\* however many rows the check counts; the count is that of the rows whose
\* carteira_vencida exceeds carteira_ativa
C13_CheckIsDiagnosticOnly ==
    script = "processar_scrdata" =>
        /\ Returned =>
              /\ out.df \in WithoutCheck(out.remover_zeros, out.criar_indicadores)
              /\ out.inconsistentes
                    = Cardinality(InconsistentRows(
                         antes_da_checagem(arg.df, out.remover_zeros, out.criar_indicadores)))
        /\ pc = "idle" =>
              \A rz, ci \in BOOLEAN :
                  \A t \in WithoutCheck(rz, ci) :
                      \E r \in processar_results(arg.df, rz, ci) : r.df = t

\* both rows of a table are counted as inconsistent and both are returned
C13_Witness ==
    /\ Returned
    /\ out.inconsistentes = 2
    /\ Len(out.df.rows) = 2
    /\ InconsistentRows(out.df) = {1, 2}

\* the rows that survived the filter, by the index label each carries
Survivors ==
    LET t == antes_da_checagem(arg.df, out.remover_zeros, out.criar_indicadores)
    IN  { <<t.rows[i].index, t.rows[i].cells>> : i \in DOMAIN t.rows }

\* C14: for a table with a data_base column the output rows are in
\* non-decreasing order of parsed date, the rows without a date form one
\* block at the end, the output rows are the rows that survived the filter,
\* each once, and the output index is 0 .. n-1 in output order
C14_SortedDenseOutput ==
    (Returned /\ "data_base" \in arg.df.cols) =>
        LET rows == out.df.rows
            n    == Len(rows)
            date(i) == rows[i].cells["data_base"]
        IN  /\ \A i, j \in 1 .. n : i < j => ~ Gt(date(i), date(j))
            /\ \A i \in 1 .. n : date(i).k \in {"date", "nan"}
            /\ \A i, j \in 1 .. n : (i < j /\ date(i).k = "nan") => date(j).k = "nan"
            /\ Len(out.ordem) = n
            /\ \A i, j \in 1 .. n : i # j => out.ordem[i] # out.ordem[j]
            /\ { <<out.ordem[i], rows[i].cells>> : i \in 1 .. n } = Survivors
            /\ Cardinality(Survivors) = n
            /\ \A i \in 1 .. n : rows[i].index = i - 1

\* the first input row has a date that cannot be parsed, the second is
\* dated: the output has the dated row first and the other one after it
C14_Witness ==
    /\ Returned
    /\ "data_base" \in arg.df.cols
    /\ Len(arg.df.rows) = 2
    /\ to_datetime(arg.df.rows[1].cells["data_base"]) = NaN
    /\ out.ordem = <<1, 0>>
    /\ out.df.rows[1].cells["data_base"].k = "date"
    /\ out.df.rows[2].cells["data_base"] = NaN
    /\ out.df.rows[1].index = 0

\* a call of pipeline_scrdata returns successfully
ReturnsSuccessfully == script = "scr_pipeline" /\ pc = "Save" /\ pc' = "idle" /\ exc' = ""

\* the .csv files of archive a as an extraction into dest writes them, each
\* with the content it has in a
TabularContent(a, dest) ==
    { <<p, a>> : p \in { q \in { extract_target(dest, m) : m \in namelist(a) } : IsCsv(q) } }

\* C15: whenever a call of pipeline_scrdata returns successfully, whatever
\* calls, failures, deletions of the archive and interrupted extractions
\* came before, the .csv files it loaded are exactly those of the archive
\* that is at the year's zip path
C15_LoadedFilesAreTheArchive ==
    [][ ReturnsSuccessfully =>
          /\ zip_path(ano) \in DOMAIN files
          /\ df = TabularContent(files[zip_path(ano)], extracted_dir(ano)) ]_vars

====
